---- MODULE Spec2Model ----
(***************************************************************************)
(* IDArling core module (src/idarling/core/core.py): the session state,    *)
(* the netnode persistence, the user-event hook switch and the join/leave  *)
(* negotiation, together with the replay cycle that applies remote events  *)
(* (src/idarling/core/events.py).                                          *)
(*                                                                         *)
(* The methods of Core are written as operators from a state record to a   *)
(* state record, so that a handler calling several methods in sequence is  *)
(* the composition of their operators; an action applies one handler to    *)
(* the current state.                                                      *)
(***************************************************************************)
EXTENDS Integers, Sequences, FiniteSets, TLC

\* ------------------------------------------------------------------ bounds

\* Largest tick a local capture may produce.
MaxTick == 2
\* Largest number of ListSnapshots queries awaiting their reply.
MaxPending == 2
\* Largest number of received remote events awaiting replay.
MaxEvents == 1
\* Largest ordinal count of the host's local types.
MaxTypes == 2
\* Longest string or byte string handed to a codec helper.
MaxText == 2
\* Longest returned value that is handed to a codec helper again.
MaxChained == 6
\* Largest number of events called on the idb.
MaxCalls == 3
\* Largest number of pairs in a local_types_changed event.
MaxPairs == 2
\* Largest number of ranges in a sgr_changed event.
MaxRanges == 2

\* ------------------------------------------------------------------ values

\* Python's None.
None == "None"

ProjectNames == {"p1"}
BinaryNames == {"b1"}
SnapshotNames == {"s1", "s2"}
UserNames == {"u1"}

\* get_host_id(), config["user"]["name"], config["user"]["color"] and
\* ida_kernwin.get_screen_ea(): fixed for the lifetime of a run.
HostId == "host"
Name == "me"
Color == "color"
ScreenEa == "ea"

\* The addresses `plce.toea()` of the places a view moves between.
Eas == {4096, 4100}

\* Python truthiness of a str-or-None value.
Truthy(v) == v # None /\ v # ""

\* The user-event hook objects of hook_all/unhook_all, and the core hook
\* objects of _install.
UserHooks == {"idb_hooks", "idp_hooks", "hxe_hooks", "ui_hooks"}
CoreHooks == {"idb_hooks_core", "idp_hooks_core", "ui_hooks_core", "view_hooks_core"}

\* ------------------------------------------------------------------ str / int

Digit == <<"0", "1", "2", "3", "4", "5", "6", "7", "8", "9">>

\* str(n) of a Python int.
RECURSIVE PyStr(_)
PyStr(n) ==
    IF n < 0 THEN "-" \o PyStr(0 - n)
    ELSE IF n < 10 THEN Digit[n + 1]
    ELSE PyStr(n \div 10) \o Digit[(n % 10) + 1]

\* int(s) of a decimal string written by str().
PyInt(s) == CHOOSE n \in (0 - 1)..(10 * (MaxTick + 2)) : PyStr(n) = s

\* ------------------------------------------------------------------ Event codec helpers

\* Python values handed to the codec helpers: a str is its code points, a
\* bytes is its byte values; other values keep only their type.
PyText(cps) == [tag |-> "str", v |-> cps]
PyBytes(bs) == [tag |-> "bytes", v |-> bs]
PyNone == [tag |-> "NoneType", v |-> <<>>]
PyIntValue(n) == [tag |-> "int", v |-> <<n>>]

\* The result of a helper: the value returned, or the exception raised.
Returned(x) == [raised |-> None, value |-> x]
Raised(exc) == [raised |-> exc, value |-> PyNone]

\* The UTF-8 bytes of one code point below 2^16.
Utf8Bytes(cp) ==
    IF cp < 128 THEN <<cp>>
    ELSE IF cp < 2048 THEN <<192 + (cp \div 64), 128 + (cp % 64)>>
    ELSE <<224 + (cp \div 4096), 128 + ((cp \div 64) % 64), 128 + (cp % 64)>>

IsSurrogate(cp) == cp >= 55296 /\ cp <= 57343

\* `s.encode("utf-8")`
RECURSIVE Utf8Encode(_)
Utf8Encode(cps) ==
    IF cps = <<>> THEN Returned(PyBytes(<<>>))
    ELSE IF IsSurrogate(Head(cps)) THEN Raised("UnicodeEncodeError")
    ELSE LET rest == Utf8Encode(Tail(cps))
         IN  IF rest.raised # None THEN rest
             ELSE Returned(PyBytes(Utf8Bytes(Head(cps)) \o rest.value.v))

IsCont(bs, i) == i <= Len(bs) /\ bs[i] >= 128 /\ bs[i] < 192

\* `s.decode("utf-8")`
RECURSIVE Utf8Decode(_)
Utf8Decode(bs) ==
    IF bs = <<>> THEN Returned(PyText(<<>>))
    ELSE LET b == bs[1]
             n == IF b < 128 THEN 1
                  ELSE IF b >= 194 /\ b < 224 /\ IsCont(bs, 2) THEN 2
                  ELSE IF b >= 224 /\ b < 240 /\ IsCont(bs, 2) /\ IsCont(bs, 3)
                       THEN 3
                  ELSE 0
             cp == IF n = 1 THEN b
                   ELSE IF n = 2 THEN (b - 192) * 64 + (bs[2] - 128)
                   ELSE IF n = 3
                        THEN (b - 224) * 4096 + (bs[2] - 128) * 64 + (bs[3] - 128)
                   ELSE 0
         IN  IF n = 0 \/ (n = 3 /\ (cp < 2048 \/ IsSurrogate(cp)))
             THEN Raised("UnicodeDecodeError")
             ELSE LET rest == Utf8Decode(SubSeq(bs, n + 1, Len(bs)))
                  IN  IF rest.raised # None THEN rest
                      ELSE Returned(PyText(<<cp>> \o rest.value.v))

\* The ASCII code of a lower-case hexadecimal digit, and the value of the
\* hexadecimal digit with ASCII code b (-1 when b is none).
HexDigit(n) == IF n < 10 THEN 48 + n ELSE 87 + n
HexValue(b) ==
    IF b >= 48 /\ b <= 57 THEN b - 48
    ELSE IF b >= 97 /\ b <= 102 THEN b - 87
    ELSE IF b >= 65 /\ b <= 70 THEN b - 55
    ELSE 0 - 1

\* `s.encode("raw_unicode_escape")`: a code point below 256 is its byte,
\* another one below 2^16 is written \uXXXX.
RECURSIVE RawEncode(_)
RawEncode(cps) ==
    IF cps = <<>> THEN <<>>
    ELSE LET cp == Head(cps)
         IN  (IF cp < 256 THEN <<cp>>
              ELSE <<92, 117, HexDigit(cp \div 4096), HexDigit((cp \div 256) % 16),
                     HexDigit((cp \div 16) % 16), HexDigit(cp % 16)>>)
             \o RawEncode(Tail(cps))

\* `s.decode("raw_unicode_escape")`; slashes is the number of backslashes
\* just read: \uXXXX is an escape after an even number of them.
RECURSIVE RawDecode(_, _)
RawDecode(bs, slashes) ==
    IF bs = <<>> THEN Returned(PyText(<<>>))
    ELSE IF bs[1] = 92 /\ slashes % 2 = 0 /\ Len(bs) >= 2 /\ bs[2] = 117
    THEN IF Len(bs) >= 6 /\ \A i \in 3..6 : HexValue(bs[i]) >= 0
         THEN LET cp == HexValue(bs[3]) * 4096 + HexValue(bs[4]) * 256
                          + HexValue(bs[5]) * 16 + HexValue(bs[6])
                  rest == RawDecode(SubSeq(bs, 7, Len(bs)), 0)
              IN  IF rest.raised # None THEN rest
                  ELSE Returned(PyText(<<cp>> \o rest.value.v))
         ELSE Raised("UnicodeDecodeError")
    ELSE LET rest == RawDecode(Tail(bs), IF bs[1] = 92 THEN slashes + 1 ELSE 0)
         IN  IF rest.raised # None THEN rest
             ELSE Returned(PyText(<<bs[1]>> \o rest.value.v))

\* Event.encode
encode(s) ==
    IF s.tag = "bytes" THEN Returned(s)
    ELSE IF s.tag = "str" THEN Utf8Encode(s.v)
    ELSE Raised("NotImplementedError")

\* Event.encode_bytes
encode_bytes(s) ==
    IF s.tag = "bytes" THEN Returned(s)
    ELSE IF s.tag = "str" THEN Returned(PyBytes(RawEncode(s.v)))
    ELSE Returned(s)

\* Event.decode
decode(s) ==
    IF s.tag = "str" THEN Returned(s)
    ELSE IF s.tag = "bytes" THEN Utf8Decode(s.v)
    ELSE Raised("NotImplementedError")

\* Event.decode_bytes
decode_bytes(s) ==
    IF s.tag = "str" THEN Returned(s)
    ELSE IF s.tag = "bytes" THEN RawDecode(s.v, 0)
    ELSE Returned(s)

\* ------------------------------------------------------------------ host primitives

\* Constants of the ida_* modules
SN_NOWARN == 256
SN_LOCAL == 512
SEGMOD_KILL == 1
SEGMOD_SILENT == 4
TINFO_DEFINITE == 1
RANGE_KIND_FUNC == 1
RANGE_KIND_SEGMENT == 2

\* Python `a | b` on non-negative ints
RECURSIVE BitOr(_, _)
BitOr(a, b) ==
    IF a = 0 THEN b
    ELSE IF b = 0 THEN a
    ELSE (IF a % 2 = 1 \/ b % 2 = 1 THEN 1 ELSE 0) + 2 * BitOr(a \div 2, b \div 2)

\* A table of the idb with key k set to v, and with key k removed.
MapPut(f, k, v) == [x \in DOMAIN f \cup {k} |-> IF x = k THEN v ELSE f[x]]
MapDel(f, k) == [x \in DOMAIN f \ {k} |-> f[x]]

\* The struct members idc.get_member_by_fullname knows, with their ids.
MemberIds == [m \in {"S.f"} |-> 8192]

\* An event being called on an idb: r.ev is the event object, r.ida the idb,
\* r.calls the mutating and refreshing host calls made so far, r.printed the
\* lines printed, r.raised the exception that ended the call; r.fails is the
\* position of the pair whose type primitive raises (0: none does).
Calling(e, h) ==
    [ev |-> e, ida |-> h, calls |-> <<>>, printed |-> <<>>, raised |-> None,
     fails |-> 0]

HostCall(r, c) == [r EXCEPT !.calls = Append(@, c)]

\* ida_name.set_name
set_name(r, ea, name, flags) ==
    [HostCall(r, [fn |-> "set_name", ea |-> ea, name |-> name, flags |-> flags])
        EXCEPT !.ida.names = MapPut(@, ea, name)]

\* ida_bytes.set_cmt
set_cmt(r, ea, comment, rptble) ==
    [HostCall(r, [fn |-> "set_cmt", ea |-> ea, cmt |-> comment, rptble |-> rptble])
        EXCEPT !.ida.cmts = MapPut(@, <<ea, rptble>>, comment)]

\* ida_bytes.patch_byte
patch_byte(r, ea, value) ==
    [HostCall(r, [fn |-> "patch_byte", ea |-> ea, value |-> value])
        EXCEPT !.ida.bytes = MapPut(@, ea, value)]

\* ida_funcs.set_func_cmt on the function ida_funcs.get_func finds at ea
set_func_cmt(r, ea, cmt, rptble) ==
    [HostCall(r, [fn |-> "set_func_cmt", ea |-> ea, cmt |-> cmt, rptble |-> rptble])
        EXCEPT !.ida.func_cmts = MapPut(@, <<ea, rptble>>, cmt)]

\* ida_segment.set_segment_cmt on the segment ida_segment.getseg finds at ea
set_segment_cmt(r, ea, cmt, rptble) ==
    [HostCall(r, [fn |-> "set_segment_cmt", ea |-> ea, cmt |-> cmt, rptble |-> rptble])
        EXCEPT !.ida.seg_cmts = MapPut(@, <<ea, rptble>>, cmt)]

\* ida_segment.del_segm
del_segm(r, ea, flags) ==
    [HostCall(r, [fn |-> "del_segm", ea |-> ea, flags |-> flags])
        EXCEPT !.ida.segs = @ \ {ea}]

\* GetTypeString of shared.local_types: the type string of a serialized type
GetTypeString(t) == [tag |-> "typestring", v |-> t.v]

\* ida_typeinf.apply_type
apply_type(r, type, fields, ea, flags) ==
    [HostCall(r, [fn |-> "apply_type", ea |-> ea, type |-> type, fields |-> fields,
                  flags |-> flags])
        EXCEPT !.ida.tinfo = MapPut(@, ea, [type |-> type, fields |-> fields])]

\* ida_kernwin.request_refresh
request_refresh(r, iwid) == HostCall(r, [fn |-> "request_refresh", iwid |-> iwid])

\* HexRaysEvent.refresh_pseudocode_view: the open pseudocode views showing
\* the function of ea are refreshed; the idb is not changed.
refresh_pseudocode_view(r, ea) ==
    HostCall(r, [fn |-> "refresh_pseudocode_view", ea |-> ea])

\* ------------------------------------------------------------------ events

\* RenamedEvent.__init__
RenamedEvent(ea, new_name, local_name) ==
    [event |-> "renamed", ea |-> ea, new_name |-> new_name, local_name |-> local_name]

\* RenamedEvent.__call__
renamed_call(r) ==
    LET flags == IF r.ev.local_name THEN SN_LOCAL ELSE 0
        r1 == set_name(r, r.ev.ea, r.ev.new_name, BitOr(flags, SN_NOWARN))
        r2 == request_refresh(r1, "IWID_DISASM")
        r3 == request_refresh(r2, "IWID_STKVIEW")
    IN  refresh_pseudocode_view(r3, r.ev.ea)

\* CmtChangedEvent.__init__
CmtChangedEvent(ea, comment, rptble) ==
    [event |-> "cmt_changed", ea |-> ea, comment |-> comment, rptble |-> rptble]

\* CmtChangedEvent.__call__ that appends to the comment in place.
cmt_changed_call_appending(r) ==
    LET old == IF <<r.ev.ea, r.ev.rptble>> \in DOMAIN r.ida.cmts
               THEN r.ida.cmts[<<r.ev.ea, r.ev.rptble>>] ELSE ""
    IN  set_cmt(r, r.ev.ea, old \o r.ev.comment, r.ev.rptble)

\* CmtChangedEvent.__call__
cmt_changed_call(r) == set_cmt(r, r.ev.ea, r.ev.comment, r.ev.rptble)

\* BytePatchedEvent.__init__
BytePatchedEvent(ea, value) == [event |-> "byte_patched", ea |-> ea, value |-> value]

\* BytePatchedEvent.__call__
byte_patched_call(r) == patch_byte(r, r.ev.ea, r.ev.value)

\* RangeCmtChangedEvent.__init__, a being the range start_ea..end_ea
RangeCmtChangedEvent(kind, start_ea, end_ea, cmt, rptble) ==
    [event |-> "range_cmt_changed", kind |-> kind, start_ea |-> start_ea,
     end_ea |-> end_ea, cmt |-> cmt, rptble |-> rptble]

\* RangeCmtChangedEvent.__call__ that takes any other kind for a segment.
range_cmt_changed_call_lenient(r) ==
    IF r.ev.kind = RANGE_KIND_FUNC
    THEN refresh_pseudocode_view(
             set_func_cmt(r, r.ev.start_ea, r.ev.cmt, r.ev.rptble), r.ev.start_ea)
    ELSE request_refresh(
             set_segment_cmt(r, r.ev.start_ea, r.ev.cmt, r.ev.rptble), "IWID_SEGS")

\* RangeCmtChangedEvent.__call__
range_cmt_changed_call(r) ==
    IF r.ev.kind = RANGE_KIND_FUNC
    THEN refresh_pseudocode_view(
             set_func_cmt(r, r.ev.start_ea, r.ev.cmt, r.ev.rptble), r.ev.start_ea)
    ELSE IF r.ev.kind = RANGE_KIND_SEGMENT
    THEN request_refresh(
             set_segment_cmt(r, r.ev.start_ea, r.ev.cmt, r.ev.rptble), "IWID_SEGS")
    ELSE [r EXCEPT !.raised = "Exception: Unsupported range kind"]

\* SegmDeletedEvent.__init__
SegmDeletedEvent(ea, flags) == [event |-> "segm_deleted_event", ea |-> ea, flags |-> flags]

\* A segm_deleted event decoded from a peer that sends no flags.
SegmDeletedEventNoFlags(ea) == [event |-> "segm_deleted_event", ea |-> ea]

\* SegmDeletedEvent.__call__ without the hasattr test.
segm_deleted_call_no_default(r) ==
    IF "flags" \notin DOMAIN r.ev
    THEN [r EXCEPT !.raised = "AttributeError"]
    ELSE del_segm(r, r.ev.ea, BitOr(r.ev.flags, SEGMOD_SILENT))

\* SegmDeletedEvent.__call__
segm_deleted_call(r) ==
    LET r1 == IF "flags" \notin DOMAIN r.ev
              THEN [r EXCEPT !.ev = [k \in DOMAIN r.ev \cup {"flags"} |->
                                        IF k = "flags" THEN 0 ELSE r.ev[k]]]
              ELSE r
    IN  del_segm(r1, r1.ev.ea, BitOr(r1.ev.flags, SEGMOD_SILENT))

\* TiChangedEvent.__init__
TiChangedEvent(ea, py_type, name) ==
    [event |-> "ti_changed", ea |-> ea,
     py_type |-> [i \in 1..Len(py_type) |-> decode_bytes(py_type[i]).value],
     name |-> name]

\* TiChangedEvent.__call__ that keeps the first element of a 3-element list.
ti_changed_call_no_drop(r) ==
    LET py_type == [i \in 1..Len(r.ev.py_type) |-> encode_bytes(r.ev.py_type[i]).value]
    IN  IF Len(py_type) >= 2
        THEN LET r1 == IF Truthy(r.ev.name) /\ r.ev.name \in DOMAIN MemberIds
                       THEN [r EXCEPT !.ev.ea = MemberIds[r.ev.name]]
                       ELSE r
                 r2 == apply_type(r1, GetTypeString(py_type[1]), py_type[2],
                                  r1.ev.ea, TINFO_DEFINITE)
                 r3 == request_refresh(r2, "IWID_DISASM")
             IN  refresh_pseudocode_view(r3, r1.ev.ea)
        ELSE r

\* TiChangedEvent.__call__
ti_changed_call(r) ==
    LET enc == [i \in 1..Len(r.ev.py_type) |-> encode_bytes(r.ev.py_type[i]).value]
        py_type == IF Len(enc) = 3 THEN Tail(enc) ELSE enc
    IN  IF Len(py_type) >= 2
        THEN LET r1 == IF Truthy(r.ev.name) /\ r.ev.name \in DOMAIN MemberIds
                       THEN [r EXCEPT !.ev.ea = MemberIds[r.ev.name]]
                       ELSE r
                 r2 == apply_type(r1, GetTypeString(py_type[1]), py_type[2],
                                  r1.ev.ea, TINFO_DEFINITE)
                 r3 == request_refresh(r2, "IWID_DISASM")
             IN  refresh_pseudocode_view(r3, r1.ev.ea)
        ELSE r

\* A primitive of shared.local_types is called on the type of the i-th pair:
\* it raises, or changes the local types of the idb to types.
TypePrimitive(r, i, c, types) ==
    IF i = r.fails
    THEN [HostCall(r, c) EXCEPT !.raised = "Exception"]
    ELSE [HostCall(r, c) EXCEPT !.ida.ltypes = types]

\* DeleteType(name) of shared.local_types
DeleteType(r, i, name) ==
    TypePrimitive(r, i, [fn |-> "DeleteType", name |-> name],
                  MapDel(r.ida.ltypes, name))

\* InsertType(new_type, replace=True) of shared.local_types
InsertType(r, i, new_type, replace) ==
    TypePrimitive(r, i, [fn |-> "InsertType", type |-> new_type, replace |-> replace],
                  MapPut(r.ida.ltypes, new_type.name, new_type))

\* EditTypeInPlace(name, new_type) of shared.local_types
EditTypeInPlace(r, i, name, new_type) ==
    TypePrimitive(r, i, [fn |-> "EditTypeInPlace", name |-> name, type |-> new_type],
                  MapPut(MapDel(r.ida.ltypes, name), new_type.name, new_type))

\* LocalType(name=, parsedList=, TypeFields=, cmt=, fieldcmts=) of
\* shared.local_types, from the fields of a new tuple, the last three
\* encoded with str.encode()
LocalType(new_tuple) ==
    [name |-> new_tuple[1], parsedList |-> new_tuple[2],
     TypeFields |-> Utf8Encode(new_tuple[3].v).value,
     cmt |-> Utf8Encode(new_tuple[4].v).value,
     fieldcmts |-> Utf8Encode(new_tuple[5].v).value]

\* LocalTypesChangedEvent.__init__
LocalTypesChangedEvent(local_types) ==
    [event |-> "local_types_changed", local_types |-> local_types]

\* The body of the try for the i-th pair; an absent tuple is <<>>.
ApplyPair(r, i, old_tuple, new_tuple) ==
    IF new_tuple = <<>>
    THEN IF old_tuple = <<>>
         THEN [r EXCEPT !.raised = "TypeError"]
         ELSE DeleteType(r, i, old_tuple[1])
    ELSE IF Len(new_tuple) # 5
    THEN [r EXCEPT !.raised = "ValueError"]
    ELSE IF old_tuple = <<>>
    THEN InsertType(r, i, LocalType(new_tuple), TRUE)
    ELSE EditTypeInPlace(r, i, old_tuple[1], LocalType(new_tuple))

\* An except clause that raises the exception again.
Uncaught(r) == r

\* `except Exception as e: print(...)`
Caught(r) ==
    IF r.raised = None THEN r
    ELSE [r EXCEPT !.raised = None,
                   !.printed = Append(@, "failed to apply local type change")]

\* The loop of LocalTypesChangedEvent.__call__, from the i-th pair on; an
\* exception that leaves the try ends the loop.
RECURSIVE ApplyPairs(_, _)
ApplyPairs(r, i) ==
    IF i > Len(r.ev.local_types) \/ r.raised # None THEN r
    ELSE LET pair == r.ev.local_types[i]
             r1 == [r EXCEPT !.printed = Append(@, "callback for local types changed")]
         IN  ApplyPairs(Caught(ApplyPair(r1, i, pair[1], pair[2])), i + 1)

\* LocalTypesChangedEvent.__call__ that inserts where it should edit.
local_types_changed_call_inserting(r) ==
    LET reinsert(pair) == IF pair[2] # <<>> THEN <<(<<>>), pair[2]>> ELSE pair
        r1 == [r EXCEPT !.ev.local_types = [i \in 1..Len(@) |-> reinsert(@[i])]]
        r2 == ApplyPairs(r1, 1)
    IN  IF r2.raised # None THEN [r2 EXCEPT !.ev = r.ev]
        ELSE request_refresh([r2 EXCEPT !.ev = r.ev], "IWID_LOCTYPS")

\* LocalTypesChangedEvent.__call__
local_types_changed_call(r) ==
    LET r1 == ApplyPairs(r, 1)
    IN  IF r1.raised # None THEN r1 ELSE request_refresh(r1, "IWID_LOCTYPS")

\* ida_segregs.split_sreg_range(ea, rg, v, tag, silent): a range of
\* register rg with value v starts at ea
split_sreg_range(r, ea, rg, v, tag, silent) ==
    [HostCall(r, [fn |-> "split_sreg_range", ea |-> ea, rg |-> rg, v |-> v,
                  tag |-> tag, silent |-> silent])
        EXCEPT !.ida.sregs = MapPut(@, ea, <<ea, ea + 4, v, tag>>)]

\* ida_segregs.del_sreg_range(ea, rg): the range of rg starting at ea is gone
del_sreg_range(r, ea, rg) ==
    [HostCall(r, [fn |-> "del_sreg_range", ea |-> ea, rg |-> rg])
        EXCEPT !.ida.sregs = MapDel(@, ea)]

\* SgrChanged.get_sreg_ranges(rg): the ranges of the register in the idb, as
\* (start_ea, end_ea, val, tag), by start address
get_sreg_ranges(h, rg) == h.sregs

\* SgrChanged.__init__
SgrChanged(rg, sreg_ranges) ==
    [event |-> "sgr_changed", rg |-> rg, sreg_ranges |-> sreg_ranges]

\* `{r[0]: r for r in ranges}`: a later range of the list replaces an
\* earlier one with the same start.
RangesByStart(ranges) ==
    [ea \in {ranges[i][1] : i \in 1..Len(ranges)} |->
        ranges[CHOOSE i \in 1..Len(ranges) :
                  /\ ranges[i][1] = ea
                  /\ \A j \in (i + 1)..Len(ranges) : ranges[j][1] # ea]]

\* One iteration of the loop of SgrChanged.__call__ that never deletes.
SgrStepKeeping(r, start_ea, new_ranges, old_ranges) ==
    IF start_ea \in DOMAIN new_ranges /\ start_ea \notin DOMAIN old_ranges
    THEN split_sreg_range(r, start_ea, r.ev.rg, new_ranges[start_ea][3],
                          new_ranges[start_ea][4], TRUE)
    ELSE IF start_ea \in DOMAIN new_ranges /\ start_ea \in DOMAIN old_ranges
         THEN IF new_ranges[start_ea][3] # old_ranges[start_ea][3]
                   \/ new_ranges[start_ea][4] # old_ranges[start_ea][4]
              THEN split_sreg_range(r, start_ea, r.ev.rg, new_ranges[start_ea][3],
                                    new_ranges[start_ea][4], TRUE)
              ELSE r
         ELSE r

\* One iteration of the loop of SgrChanged.__call__
SgrStep(r, start_ea, new_ranges, old_ranges) ==
    IF start_ea \in DOMAIN new_ranges /\ start_ea \notin DOMAIN old_ranges
    THEN split_sreg_range(r, start_ea, r.ev.rg, new_ranges[start_ea][3],
                          new_ranges[start_ea][4], TRUE)
    ELSE IF start_ea \notin DOMAIN new_ranges /\ start_ea \in DOMAIN old_ranges
    THEN del_sreg_range(r, start_ea, r.ev.rg)
    ELSE IF start_ea \in DOMAIN new_ranges /\ start_ea \in DOMAIN old_ranges
         THEN IF new_ranges[start_ea][3] # old_ranges[start_ea][3]
                   \/ new_ranges[start_ea][4] # old_ranges[start_ea][4]
              THEN split_sreg_range(r, start_ea, r.ev.rg, new_ranges[start_ea][3],
                                    new_ranges[start_ea][4], TRUE)
              ELSE r
         ELSE r

\* The loop over sorted(start_eas), the smallest address first
RECURSIVE SgrLoop(_, _, _, _)
SgrLoop(r, start_eas, new_ranges, old_ranges) ==
    IF start_eas = {} THEN r
    ELSE LET start_ea == CHOOSE a \in start_eas : \A b \in start_eas : a <= b
         IN  SgrLoop(SgrStep(r, start_ea, new_ranges, old_ranges),
                     start_eas \ {start_ea}, new_ranges, old_ranges)

\* SgrChanged.__call__
sgr_changed_call(r) ==
    LET new_ranges == RangesByStart(r.ev.sreg_ranges)
        old_ranges == get_sreg_ranges(r.ida, r.ev.rg)
        r1 == SgrLoop(r, DOMAIN new_ranges \cup DOMAIN old_ranges,
                      new_ranges, old_ranges)
    IN  request_refresh(r1, "IWID_SEGREGS")

\* A primitive that sets the representation of operand n of the item at ea:
\* the host call c is made and the idb keeps the representation.
SetOperand(r, ea, n, c, shown) ==
    [HostCall(r, c) EXCEPT !.ida.ops = MapPut(@, <<ea, n>>, shown)]

\* ida_bytes.op_hex, op_bin, op_dec, op_chr, op_oct
op_hex(r, ea, n) ==
    SetOperand(r, ea, n, [fn |-> "op_hex", ea |-> ea, n |-> n], [kind |-> "hex"])
op_bin(r, ea, n) ==
    SetOperand(r, ea, n, [fn |-> "op_bin", ea |-> ea, n |-> n], [kind |-> "bin"])
op_dec(r, ea, n) ==
    SetOperand(r, ea, n, [fn |-> "op_dec", ea |-> ea, n |-> n], [kind |-> "dec"])
op_chr(r, ea, n) ==
    SetOperand(r, ea, n, [fn |-> "op_chr", ea |-> ea, n |-> n], [kind |-> "chr"])
op_oct(r, ea, n) ==
    SetOperand(r, ea, n, [fn |-> "op_oct", ea |-> ea, n |-> n], [kind |-> "oct"])

\* ida_offset.op_plain_offset
op_plain_offset(r, ea, n, base) ==
    SetOperand(r, ea, n,
               [fn |-> "op_plain_offset", ea |-> ea, n |-> n, base |-> base],
               [kind |-> "offset", base |-> base])

\* ida_bytes.op_enum
op_enum(r, ea, n, id, serial) ==
    SetOperand(r, ea, n,
               [fn |-> "op_enum", ea |-> ea, n |-> n, id |-> id, serial |-> serial],
               [kind |-> "enum", id |-> id, serial |-> serial])

\* ida_bytes.op_stroff, on the instruction decoded at ea
op_stroff(r, ea, n, path, path_len, delta) ==
    SetOperand(r, ea, n,
               [fn |-> "op_stroff", ea |-> ea, n |-> n, path |-> path,
                path_len |-> path_len, delta |-> delta],
               [kind |-> "stroff", path |-> path, delta |-> delta])

\* ida_bytes.op_stkvar
op_stkvar(r, ea, n) ==
    SetOperand(r, ea, n, [fn |-> "op_stkvar", ea |-> ea, n |-> n], [kind |-> "stkvar"])

\* idc.get_enum and idc.get_struc_id: the id of the enum or struct of that
\* name, BADADDR for a name the idb lacks; they read the idb only.
BADADDR == -1
get_enum(name) == IF name = "E" THEN 12288 ELSE BADADDR
get_struc_id(name) == IF name = "S" THEN 8192 ELSE BADADDR

\* OpTypeChangedEvent.__init__
OpTypeChangedEvent(ea, n, op, extra) ==
    [event |-> "op_type_changed", ea |-> ea, n |-> n, op |-> op, extra |-> extra]

\* OpTypeChangedEvent.__call__ that rejects an op it does not know.
op_type_changed_call_strict(r) ==
    LET e == r.ev
    IN  CASE e.op = "hex" -> op_hex(r, e.ea, e.n)
          [] e.op = "bin" -> op_bin(r, e.ea, e.n)
          [] e.op = "dec" -> op_dec(r, e.ea, e.n)
          [] e.op = "chr" -> op_chr(r, e.ea, e.n)
          [] e.op = "oct" -> op_oct(r, e.ea, e.n)
          [] e.op = "offset" -> op_plain_offset(r, e.ea, e.n, 0)
          [] e.op = "enum" ->
                op_enum(r, e.ea, e.n, get_enum(e.extra.ename), e.extra.serial)
          [] e.op = "struct" ->
                LET path_len == Len(e.extra.spath)
                    path == [i \in 1..path_len |-> get_struc_id(e.extra.spath[i])]
                IN  op_stroff(r, e.ea, e.n, path, path_len, e.extra.delta)
          [] e.op = "stkvar" -> op_stkvar(r, e.ea, e.n)
          [] OTHER -> [r EXCEPT !.raised = "ValueError"]

\* OpTypeChangedEvent.__call__: a chain of `if self.op == ...` on one value,
\* of which one at most holds
op_type_changed_call(r) ==
    LET e == r.ev
    IN  CASE e.op = "hex" -> op_hex(r, e.ea, e.n)
          [] e.op = "bin" -> op_bin(r, e.ea, e.n)
          [] e.op = "dec" -> op_dec(r, e.ea, e.n)
          [] e.op = "chr" -> op_chr(r, e.ea, e.n)
          [] e.op = "oct" -> op_oct(r, e.ea, e.n)
          [] e.op = "offset" -> op_plain_offset(r, e.ea, e.n, 0)
          [] e.op = "enum" ->
                op_enum(r, e.ea, e.n, get_enum(e.extra.ename), e.extra.serial)
          [] e.op = "struct" ->
                LET path_len == Len(e.extra.spath)
                    path == [i \in 1..path_len |-> get_struc_id(e.extra.spath[i])]
                IN  op_stroff(r, e.ea, e.n, path, path_len, e.extra.delta)
          [] e.op = "stkvar" -> op_stkvar(r, e.ea, e.n)
          [] OTHER -> r

\* Event.__call__ of the event r.ev, by its class
call(r) ==
    CASE r.ev.event = "renamed" -> renamed_call(r)
      [] r.ev.event = "cmt_changed" -> cmt_changed_call(r)
      [] r.ev.event = "byte_patched" -> byte_patched_call(r)
      [] r.ev.event = "range_cmt_changed" -> range_cmt_changed_call(r)
      [] r.ev.event = "segm_deleted_event" -> segm_deleted_call(r)
      [] r.ev.event = "ti_changed" -> ti_changed_call(r)
      [] r.ev.event = "local_types_changed" -> local_types_changed_call(r)
      [] r.ev.event = "sgr_changed" -> sgr_changed_call(r)
      [] r.ev.event = "op_type_changed" -> op_type_changed_call(r)

\* ------------------------------------------------------------------ state

VARIABLES
    project,         \* Core._project
    binary,          \* Core._binary
    snapshot,        \* Core._snapshot
    tick,            \* Core._tick
    ticks,           \* Core.ticks, the attribute closebase assigns: <<>> until assigned
    users,           \* Core._users (the roster), by name
    session_joined,  \* Core._session_joined
    hooked,          \* Core._hooked
    user_hooks,      \* per user-event hook object: how many times it is hooked
    core_hooks,      \* per core hook object: is it hooked
    installed,       \* _install has run
    local_type_map,  \* Core.local_type_map: ordinal -> type
    host_types,      \* the host's local types, by ordinal 1..count
    node,            \* the "$ idarling" netnode: key -> string, present keys only
    pending,         \* deferreds of ListSnapshots queries awaiting a reply
    events,          \* received remote events awaiting replay
    pc,              \* position of the replay cycle
    sent,            \* packets handed to network.send_packet by the last step
    logged,          \* logger calls of the last step
    hook_calls,      \* hook()/unhook() calls on user-event hook objects by the last step
    reply,           \* the deferred the last step fired, and the reply it was given
    on_wire,         \* history: the last session packet sent is a JoinSession
    codec,           \* the last call of a codec helper: its argument and result
    ida,             \* the idb of the host, as the ida_* primitives change it
    ran              \* the last Event.__call__: the event, the host calls it made

vars ==
    << project, binary, snapshot, tick, ticks, users, session_joined, hooked,
       user_hooks, core_hooks, installed, local_type_map, host_types, node,
       pending, events, pc, sent, logged, hook_calls, reply, on_wire,
       codec, ida, ran >>

\* The variables of the core
coreVars ==
    << project, binary, snapshot, tick, ticks, users, session_joined, hooked,
       user_hooks, core_hooks, installed, local_type_map, host_types, node,
       pending, events, pc, sent, logged, hook_calls, reply, on_wire >>

\* Whether the last session packet put on the wire is a JoinSession, once
\* packets have been sent from a wire in state w.
RECURSIVE Wire(_, _)
Wire(w, packets) ==
    IF packets = <<>> THEN w
    ELSE Wire(IF Head(packets).type = "JoinSession" THEN TRUE
              ELSE IF Head(packets).type = "LeaveSession" THEN FALSE
              ELSE w,
              Tail(packets))

\* The current state of the core as a record; sent, logged and hook_calls
\* start empty for the step being taken.
Cur ==
    [ project |-> project, binary |-> binary, snapshot |-> snapshot,
      tick |-> tick, ticks |-> ticks, users |-> users,
      session_joined |-> session_joined, hooked |-> hooked,
      user_hooks |-> user_hooks, local_type_map |-> local_type_map,
      node |-> node, pending |-> pending,
      sent |-> <<>>, logged |-> <<>>, hook_calls |-> 0 ]

\* The step's result becomes the next state.
Becomes(s) ==
    /\ project' = s.project
    /\ binary' = s.binary
    /\ snapshot' = s.snapshot
    /\ tick' = s.tick
    /\ ticks' = s.ticks
    /\ users' = s.users
    /\ session_joined' = s.session_joined
    /\ hooked' = s.hooked
    /\ user_hooks' = s.user_hooks
    /\ local_type_map' = s.local_type_map
    /\ node' = s.node
    /\ pending' = s.pending
    /\ sent' = s.sent
    /\ logged' = s.logged
    /\ hook_calls' = s.hook_calls
    /\ on_wire' = Wire(on_wire, s.sent)
    /\ UNCHANGED <<codec, ida, ran>>

\* The step fired no deferred.
NoReply ==
    [ fired |-> "none", d |-> [project |-> None, binary |-> None, stale |-> FALSE],
      snapshots |-> {} ]

\* ------------------------------------------------------------------ logger, network

Log(s, msg) == [s EXCEPT !.logged = Append(@, msg)]

\* network.send_packet(packet): the packet is handed to the transport.
send_packet(s, packet) == [s EXCEPT !.sent = Append(@, packet)]

JoinSession(host_id, p, b, sn, t, name, color, ea) ==
    [ type |-> "JoinSession", host_id |-> host_id, project |-> p, binary |-> b,
      snapshot |-> sn, tick |-> t, name |-> name, color |-> color, ea |-> ea ]

LeaveSession(host_id, name) ==
    [type |-> "LeaveSession", host_id |-> host_id, name |-> name]

ListSnapshotsQuery(p, b) ==
    [type |-> "ListSnapshots.Query", project |-> p, binary |-> b]

UpdateLocation(name, ea, color) ==
    [type |-> "UpdateLocation", name |-> name, ea |-> ea, color |-> color]

\* ------------------------------------------------------------------ netnode

\* node.hashstr(key): the stored string, or None when the key is absent.
hashstr(n, key) == IF key \in DOMAIN n THEN n[key] ELSE None

\* node.hashset_buf(key, value)
hashset_buf(n, key, value) ==
    [k \in DOMAIN n \cup {key} |-> IF k = key THEN value ELSE n[k]]

\* node.kill()
EmptyNode == [k \in {} |-> None]

\* Core.save_netnode
save_netnode(s) ==
    LET n1 == IF Truthy(s.project)
              THEN hashset_buf(s.node, "project", s.project) ELSE s.node
        n2 == IF Truthy(s.binary)
              THEN hashset_buf(n1, "binary", s.binary) ELSE n1
        n3 == IF Truthy(s.snapshot)
              THEN hashset_buf(n2, "snapshot", s.snapshot) ELSE n2
        n4 == IF s.tick # 0 - 1
              THEN hashset_buf(n3, "tick", PyStr(s.tick)) ELSE n3
    IN  Log([s EXCEPT !.node = n4], "debug: Saved netnode")

\* `node.hashstr(key) or None`
OrNone(v) == IF Truthy(v) THEN v ELSE None

\* A load that forgets the stored tick.
LoadTickZero(n) == 0

\* `int(node.hashstr("tick") or "0")`
LoadTick(n) == PyInt(IF Truthy(hashstr(n, "tick")) THEN hashstr(n, "tick") ELSE "0")

\* load_netnode_old reading the keys of the current layout.
load_netnode_old_unmapped(s) ==
    LET s1 == Log(s, "warning: Old idb detected")
        s2 == [s1 EXCEPT !.project = OrNone(hashstr(s.node, "project")),
                         !.binary = OrNone(hashstr(s.node, "binary")),
                         !.snapshot = OrNone(hashstr(s.node, "snapshot")),
                         !.tick = LoadTick(s.node),
                         !.node = EmptyNode]
    IN  save_netnode(s2)

\* load_netnode_old without its `node.kill()`.
load_netnode_old_keeps_node(s) ==
    LET s1 == Log(s, "warning: Old idb detected")
        s2 == [s1 EXCEPT !.project = OrNone(hashstr(s.node, "group")),
                         !.binary = OrNone(hashstr(s.node, "project")),
                         !.snapshot = OrNone(hashstr(s.node, "database")),
                         !.tick = LoadTick(s.node)]
    IN  save_netnode(s2)

\* Core.load_netnode_old
load_netnode_old(s) ==
    LET s1 == Log(s, "warning: Old idb detected")
        s2 == [s1 EXCEPT !.project = OrNone(hashstr(s.node, "group")),
                         !.binary = OrNone(hashstr(s.node, "project")),
                         !.snapshot = OrNone(hashstr(s.node, "database")),
                         !.tick = LoadTick(s.node),
                         !.node = EmptyNode]
    IN  save_netnode(s2)

\* Core.load_netnode
load_netnode(s) ==
    LET s1 == IF Truthy(hashstr(s.node, "database"))
              THEN load_netnode_old(s)
              ELSE [s EXCEPT !.project = OrNone(hashstr(s.node, "project")),
                             !.binary = OrNone(hashstr(s.node, "binary")),
                             !.snapshot = OrNone(hashstr(s.node, "snapshot")),
                             !.tick = LoadTick(s.node)]
    IN  Log(s1, "debug: Loaded netnode")

\* ------------------------------------------------------------------ setters

\* Core.project setter
set_project(s, v) == save_netnode([s EXCEPT !.project = v])

\* Core.binary setter
set_binary(s, v) == save_netnode([s EXCEPT !.binary = v])

\* Core.snapshot setter
set_snapshot(s, v) == save_netnode([s EXCEPT !.snapshot = v])

\* Core.tick setter
set_tick(s, v) == save_netnode([s EXCEPT !.tick = v])

\* ------------------------------------------------------------------ hooks

\* Core.update_local_types_map
update_local_types_map(s) ==
    LET count == Len(host_types)
        old == s.local_type_map
    IN  [s EXCEPT !.local_type_map =
            [i \in DOMAIN old \cup (1..count) |->
                IF i \in 1..count THEN host_types[i] ELSE old[i]]]

\* hook() on every user-event hook object.
HookEach(h) == [o \in UserHooks |-> h[o] + 1]

\* unhook() on every user-event hook object.
UnhookEach(h) == [o \in UserHooks |-> IF h[o] > 0 THEN h[o] - 1 ELSE 0]

\* hook_all without its `if self._hooked: return`.
hook_all_unguarded(s) ==
    update_local_types_map(
        [Log(s, "debug: Installing hooks")
            EXCEPT !.user_hooks = HookEach(@),
                   !.hook_calls = @ + Cardinality(UserHooks),
                   !.hooked = TRUE])

\* Core.hook_all
hook_all(s) ==
    IF s.hooked THEN s
    ELSE update_local_types_map(
            [Log(s, "debug: Installing hooks")
                EXCEPT !.user_hooks = HookEach(@),
                       !.hook_calls = @ + Cardinality(UserHooks),
                       !.hooked = TRUE])

\* unhook_all that clears the flag and leaves the hook objects hooked.
unhook_all_flag_only(s) ==
    IF ~s.hooked THEN s
    ELSE [Log(s, "debug: Uninstalling hooks") EXCEPT !.hooked = FALSE]

\* Core.unhook_all
unhook_all(s) ==
    IF ~s.hooked THEN s
    ELSE [Log(s, "debug: Uninstalling hooks")
            EXCEPT !.user_hooks = UnhookEach(@),
                   !.hook_calls = @ + Cardinality(UserHooks),
                   !.hooked = FALSE]

\* ------------------------------------------------------------------ roster

\* Core.add_user
add_user(s, name) == [s EXCEPT !.users = @ \cup {name}]

\* Core.remove_user (a name that is not in the roster raises KeyError)
remove_user(s, name) == [s EXCEPT !.users = @ \ {name}]

\* ------------------------------------------------------------------ join / leave

\* `self._project and self._binary and self._snapshot`
AllSet(s) == Truthy(s.project) /\ Truthy(s.binary) /\ Truthy(s.snapshot)

\* A test that accepts any non-empty snapshot list.
OnServerAny(s, snapshots) == snapshots # {}

\* `any(d.name == self._snapshot for d in reply.snapshots)`
OnServer(s, snapshots) == \E name \in snapshots : name = s.snapshot

\* snapshots_listed without its `self._users.clear()`.
snapshots_listed_keeps_roster(s, snapshots) ==
    IF ~OnServer(s, snapshots)
    THEN Log(s, "debug: Snapshot is not on the server")
    ELSE LET s1 == Log(s, "debug: Snapshot is on the server")
             s2 == send_packet(s1,
                       JoinSession(HostId, s1.project, s1.binary, s1.snapshot,
                                   s1.tick, Name, Color, ScreenEa))
             s3 == [s2 EXCEPT !.session_joined = TRUE]
         IN  hook_all(s3)

\* Core.join_session.snapshots_listed, the success callback of the query
snapshots_listed(s, snapshots) ==
    IF ~OnServer(s, snapshots)
    THEN Log(s, "debug: Snapshot is not on the server")
    ELSE LET s1 == Log(s, "debug: Snapshot is on the server")
             s2 == send_packet(s1,
                       JoinSession(HostId, s1.project, s1.binary, s1.snapshot,
                                   s1.tick, Name, Color, ScreenEa))
             s3 == [s2 EXCEPT !.session_joined = TRUE]
             s4 == hook_all(s3)
         IN  [s4 EXCEPT !.users = {}]

\* An errback that swallows the failure.
errback_swallowed(s) == s

\* The errback of the query: logger.exception(failure)
errback(s) == Log(s, "exception: failure")

\* Core.join_session; got_d is whether network.send_packet returned a
\* deferred (`if d:`)
join_session(s, got_d) ==
    IF AllSet(s)
    THEN LET s1 == IF s.session_joined
                   THEN Log(s, "debug: Joining a new session")
                   ELSE Log(s, "info: Joining session")
             s2 == send_packet(s1, ListSnapshotsQuery(s1.project, s1.binary))
         IN  IF got_d
             THEN [s2 EXCEPT !.pending =
                      Append(@, [project |-> s1.project, binary |-> s1.binary,
                                 stale |-> FALSE])]
             ELSE s2
    ELSE [Log(s, "debug: Not joining any session yet")
            EXCEPT !.session_joined = FALSE]

\* leave_session that also forgets the project, as closebase does.
leave_session_clearing(s) ==
    IF ~s.session_joined
    THEN Log(s, "debug: Already left session")
    ELSE LET s1 == Log(s, "debug: Leaving session")
             s2 == IF AllSet(s1)
                   THEN LET a == send_packet(s1, LeaveSession(HostId, Name))
                            b == [a EXCEPT !.users = {}]
                        IN  unhook_all(b)
                   ELSE s1
         IN  set_project([s2 EXCEPT !.session_joined = FALSE], None)

\* Core.leave_session
leave_session(s) ==
    IF ~s.session_joined
    THEN Log(s, "debug: Already left session")
    ELSE LET s1 == Log(s, "debug: Leaving session")
             s2 == IF AllSet(s1)
                   THEN LET a == send_packet(s1, LeaveSession(HostId, Name))
                            b == [a EXCEPT !.users = {}]
                        IN  unhook_all(b)
                   ELSE s1
         IN  [s2 EXCEPT !.session_joined = FALSE]

\* IDBHooksCore.closebase
closebase(s) ==
    LET s1 == Log(s, "trace: Closebase hook")
        s2 == leave_session(s1)
        s3 == save_netnode(s2)
        s4 == set_project(s3, None)
        s5 == set_binary(s4, None)
        s6 == set_snapshot(s5, None)
    IN  [s6 EXCEPT !.ticks = <<0>>]

\* view_loc_changed that does not look at the session.
view_loc_changed_always(s, now, was) ==
    IF now # was
    THEN send_packet(s, UpdateLocation(Name, now, Color))
    ELSE s

\* ViewHooksCore.view_loc_changed; now and was are the `plce.toea()` of the
\* new and the previous place
view_loc_changed(s, now, was) ==
    IF ~s.session_joined
    THEN s
    ELSE IF now # was
         THEN send_packet(s, UpdateLocation(Name, now, Color))
         ELSE s

\* ready_to_run that joins before it loads the netnode.
ready_to_run_join_first(s, got_d) ==
    LET s1 == Log(s, "trace: Ready to run hook")
        s2 == join_session(s1, got_d)
    IN  load_netnode(s2)

\* UIHooksCore.ready_to_run
ready_to_run(s, got_d) ==
    LET s1 == Log(s, "trace: Ready to run hook")
        s2 == load_netnode(s1)
    IN  join_session(s2, got_d)

\* A deferred is stale once the session is torn down or a newer join attempt
\* sends its own query.
MarkStale(s) ==
    [s EXCEPT !.pending = [i \in 1..Len(@) |-> [@[i] EXCEPT !.stale = TRUE]]]

\* The deferreds without the i-th, which has fired.
Fired(s, i) ==
    [s EXCEPT !.pending = SubSeq(@, 1, i - 1) \o SubSeq(@, i + 1, Len(@))]

\* ------------------------------------------------------------------ capture and replay

\* A user-event hook fires on a host notification: the event is sent and the
\* tick advances and is persisted.
capture(s) == set_tick(send_packet(s, [type |-> "Event"]), s.tick + 1)

\* Some user-event hook object is registered with the host.
Capturing(s) == \E o \in UserHooks : s.user_hooks[o] > 0

\* The host runs the event's __call__; the host notification it raises
\* reaches the user-event hooks that are hooked at that moment.
apply_event(s) == IF Capturing(s) THEN capture(s) ELSE s

\* ------------------------------------------------------------------ initial state

\* What the "$ idarling" netnode of the opened idb may hold: nothing, a
\* session in the current layout, or a session in the old layout.
StoredNodes ==
    { EmptyNode,
      [k \in {"project", "binary", "snapshot", "tick"} |->
          CASE k = "project" -> "p1" [] k = "binary" -> "b1"
            [] k = "snapshot" -> "s1" [] OTHER -> "1"],
      [k \in {"group", "project", "database", "tick"} |->
          CASE k = "group" -> "p1" [] k = "project" -> "b1"
            [] k = "database" -> "s1" [] OTHER -> "1"] }

\* No codec helper has been called.
NoCodec == [fn |-> "none", arg |-> PyNone, raised |-> None, value |-> PyNone]

\* No event has been called.
NoRun == [ev |-> [event |-> "none"], after |-> [event |-> "none"],
          calls |-> <<>>, printed |-> <<>>, raised |-> None, fails |-> 0, n |-> 0]

\* The idb before any event is applied.
NewIdb ==
    [ names |-> <<>>, cmts |-> <<>>, bytes |-> <<>>, func_cmts |-> <<>>,
      seg_cmts |-> <<>>, segs |-> Eas, tinfo |-> <<>>, ltypes |-> <<>>,
      sregs |-> <<>>, ops |-> <<>> ]

\* Core.__init__, on an idb whose netnode is one of nodes
InitWith(nodes) ==
    /\ project = None
    /\ binary = None
    /\ snapshot = None
    /\ tick = 0 - 1
    /\ ticks = <<>>
    /\ users = {}
    /\ session_joined = FALSE
    /\ hooked = FALSE
    /\ user_hooks = [o \in UserHooks |-> 0]
    /\ core_hooks = [o \in CoreHooks |-> FALSE]
    /\ installed = "constructed"
    /\ local_type_map = [i \in {} |-> None]
    /\ host_types = <<"T1">>
    /\ node \in nodes
    /\ pending = <<>>
    /\ events = 0
    /\ pc = "idle"
    /\ sent = <<>>
    /\ logged = <<>>
    /\ hook_calls = 0
    /\ reply = NoReply
    /\ on_wire = FALSE
    /\ codec = NoCodec
    /\ ida = NewIdb
    /\ ran = NoRun

Init == InitWith(StoredNodes)

\* The netnodes an idb may hold, key by key: a key is absent or holds one of
\* the strings that the current or the old layout stores under it.
KeyStrings ==
    [ group : {None, "p1"}, project : {None, "p1", "b1"},
      database : {None, "s1"}, binary : {None, "b1"},
      snapshot : {None, "s1"}, tick : {None, "0", "1", "5"} ]

PresentKeys(r) == {k \in DOMAIN r : r[k] # None}

AnyStoredNodes == {[k \in PresentKeys(r) |-> r[k]] : r \in KeyStrings}

\* The core is installed and no event is being replayed: the single thread
\* is free to run a handler.
Idle == installed = "installed" /\ pc = "idle"

\* ------------------------------------------------------------------ actions

\* Core._install
Install ==
    /\ installed = "constructed"
    /\ installed' = "installed"
    /\ core_hooks' = [o \in CoreHooks |-> TRUE]
    /\ Becomes(Log(Cur, "debug: Installing core hooks"))
    /\ reply' = NoReply
    /\ UNCHANGED <<host_types, events, pc>>

\* Core._uninstall
Uninstall ==
    /\ Idle
    /\ installed' = "uninstalled"
    /\ core_hooks' = [o \in CoreHooks |->
                        IF o = "idp_hooks_core" THEN core_hooks[o] ELSE FALSE]
    /\ Becomes(unhook_all(Log(Cur, "debug: Uninstalling core hooks")))
    /\ reply' = NoReply
    /\ UNCHANGED <<host_types, events, pc>>

\* The project, binary and snapshot setters
SetProject(v) ==
    /\ Idle
    /\ Becomes(set_project(Cur, v))
    /\ reply' = NoReply
    /\ UNCHANGED <<core_hooks, installed, host_types, events, pc>>

SetBinary(v) ==
    /\ Idle
    /\ Becomes(set_binary(Cur, v))
    /\ reply' = NoReply
    /\ UNCHANGED <<core_hooks, installed, host_types, events, pc>>

SetSnapshot(v) ==
    /\ Idle
    /\ Becomes(set_snapshot(Cur, v))
    /\ reply' = NoReply
    /\ UNCHANGED <<core_hooks, installed, host_types, events, pc>>

\* Saving the idb as a new snapshot: the snapshot setter with a snapshot
\* other than the current one, then the tick setter with 0.
SaveAsNewSnapshot(v) ==
    /\ Idle
    /\ v # snapshot
    /\ Becomes(set_tick(set_snapshot(Cur, v), 0))
    /\ reply' = NoReply
    /\ UNCHANGED <<core_hooks, installed, host_types, events, pc>>

\* Core.join_session
JoinSessionCall(got_d) ==
    /\ Idle
    /\ got_d => Len(pending) < MaxPending
    /\ Becomes(join_session(IF AllSet(Cur) THEN MarkStale(Cur) ELSE Cur, got_d))
    /\ reply' = NoReply
    /\ UNCHANGED <<core_hooks, installed, host_types, events, pc>>

\* The reply to the i-th outstanding query arrives: its callback runs.
SnapshotsListed(i, snapshots) ==
    /\ Idle
    /\ i \in 1..Len(pending)
    /\ Becomes(snapshots_listed(Fired(Cur, i), snapshots))
    /\ reply' = [fired |-> "callback", d |-> pending[i], snapshots |-> snapshots]
    /\ UNCHANGED <<core_hooks, installed, host_types, events, pc>>

\* The i-th outstanding query fails: its errback runs.
Errback(i) ==
    /\ Idle
    /\ i \in 1..Len(pending)
    /\ Becomes(errback(Fired(Cur, i)))
    /\ reply' = [fired |-> "errback", d |-> pending[i], snapshots |-> {}]
    /\ UNCHANGED <<core_hooks, installed, host_types, events, pc>>

\* Core.leave_session
LeaveSessionCall ==
    /\ Idle
    /\ Becomes(leave_session(MarkStale(Cur)))
    /\ reply' = NoReply
    /\ UNCHANGED <<core_hooks, installed, host_types, events, pc>>

\* The host closes the idb: IDBHooksCore.closebase
Closebase ==
    /\ Idle
    /\ core_hooks["idb_hooks_core"]
    /\ Becomes(closebase(MarkStale(Cur)))
    /\ reply' = NoReply
    /\ UNCHANGED <<core_hooks, installed, host_types, events, pc>>

\* The host has loaded the idb: UIHooksCore.ready_to_run
ReadyToRun(got_d) ==
    /\ Idle
    /\ core_hooks["ui_hooks_core"]
    /\ got_d => Len(pending) < MaxPending
    /\ LET s == load_netnode(Cur)
       IN  Becomes(ready_to_run(IF AllSet(s) THEN MarkStale(Cur) ELSE Cur, got_d))
    /\ reply' = NoReply
    /\ UNCHANGED <<core_hooks, installed, host_types, events, pc>>

\* The host moves a view: ViewHooksCore.view_loc_changed
ViewLocChanged(now, was) ==
    /\ Idle
    /\ core_hooks["view_hooks_core"]
    /\ Becomes(view_loc_changed(Cur, now, was))
    /\ reply' = NoReply
    /\ UNCHANGED <<core_hooks, installed, host_types, events, pc>>

\* Core.add_user / Core.remove_user, on the server's roster packets
AddUser(name) ==
    /\ Idle
    /\ session_joined
    /\ Becomes(add_user(Cur, name))
    /\ reply' = NoReply
    /\ UNCHANGED <<core_hooks, installed, host_types, events, pc>>

RemoveUser(name) ==
    /\ Idle
    /\ name \in users
    /\ Becomes(remove_user(Cur, name))
    /\ reply' = NoReply
    /\ UNCHANGED <<core_hooks, installed, host_types, events, pc>>

\* The user edits the idb and a hooked user-event hook captures the edit.
Capture ==
    /\ Idle
    /\ Capturing(Cur)
    /\ tick < MaxTick
    /\ Becomes(capture(Cur))
    /\ reply' = NoReply
    /\ UNCHANGED <<core_hooks, installed, host_types, events, pc>>

\* The server relays another peer's event; it is queued for replay.
RecvEvent ==
    /\ Idle
    /\ session_joined
    /\ events < MaxEvents
    /\ events' = events + 1
    /\ Becomes(Cur)
    /\ reply' = NoReply
    /\ UNCHANGED <<core_hooks, installed, host_types, pc>>

\* IDPHooksCore.ev_auto_queue_empty with a queued event: the client takes
\* the event and disables capture before calling it.
CallEventUnhook ==
    /\ Idle
    /\ core_hooks["idp_hooks_core"]
    /\ events > 0
    /\ events' = events - 1
    /\ pc' = "call"
    /\ Becomes(unhook_all(Cur))
    /\ reply' = NoReply
    /\ UNCHANGED <<core_hooks, installed, host_types>>

\* Event.__call__ of the event taken
CallEventApply ==
    /\ pc = "call"
    /\ pc' = "called"
    /\ Becomes(apply_event(Cur))
    /\ reply' = NoReply
    /\ UNCHANGED <<core_hooks, installed, host_types, events>>

\* The client enables capture again once the event has been called.
CallEventHook ==
    /\ pc = "called"
    /\ pc' = "idle"
    /\ Becomes(hook_all(Cur))
    /\ reply' = NoReply
    /\ UNCHANGED <<core_hooks, installed, host_types, events>>

Values(names) == names \cup {None}

\* The session operations of core.py
Next ==
    \/ Install
    \/ Uninstall
    \/ \E v \in Values(ProjectNames) : SetProject(v)
    \/ \E v \in Values(BinaryNames) : SetBinary(v)
    \/ \E v \in Values(SnapshotNames) : SetSnapshot(v)
    \/ \E got_d \in BOOLEAN : JoinSessionCall(got_d)
    \/ \E i \in 1..MaxPending, snapshots \in SUBSET SnapshotNames :
          SnapshotsListed(i, snapshots)
    \/ \E i \in 1..MaxPending : Errback(i)
    \/ LeaveSessionCall
    \/ Closebase
    \/ \E got_d \in BOOLEAN : ReadyToRun(got_d)
    \/ \E name \in UserNames : AddUser(name)
    \/ \E name \in UserNames : RemoveUser(name)

Spec == Init /\ [][Next]_vars

\* A session that is opened, joined, left and closed, with capture of local
\* edits and replay of remote events
NextReplay ==
    \/ Install
    \/ \E got_d \in BOOLEAN : ReadyToRun(got_d)
    \/ \E i \in 1..MaxPending, snapshots \in SUBSET SnapshotNames :
          SnapshotsListed(i, snapshots)
    \/ LeaveSessionCall
    \/ Closebase
    \/ Capture
    \/ RecvEvent
    \/ CallEventUnhook
    \/ CallEventApply
    \/ CallEventHook

SpecReplay == Init /\ [][NextReplay]_vars

\* The operations that read or write the tick or the identifiers
NextTick ==
    \/ Install
    \/ \E v \in Values(ProjectNames) : SetProject(v)
    \/ \E v \in Values(BinaryNames) : SetBinary(v)
    \/ \E v \in Values(SnapshotNames) : SetSnapshot(v)
    \/ \E v \in SnapshotNames : SaveAsNewSnapshot(v)
    \/ JoinSessionCall(TRUE)
    \/ \E snapshots \in SUBSET SnapshotNames : SnapshotsListed(1, snapshots)
    \/ LeaveSessionCall
    \/ Closebase
    \/ ReadyToRun(FALSE)
    \/ Capture

SpecTick == Init /\ [][NextTick]_vars

\* Opening and closing idbs of every stored layout, with the identifier
\* setters
NextNetnode ==
    \/ Install
    \/ \E got_d \in BOOLEAN : ReadyToRun(got_d)
    \/ \E v \in Values(ProjectNames) : SetProject(v)
    \/ \E v \in Values(BinaryNames) : SetBinary(v)
    \/ \E v \in Values(SnapshotNames) : SetSnapshot(v)
    \/ Closebase

InitNetnode == InitWith(AnyStoredNodes)

SpecNetnode == InitNetnode /\ [][NextNetnode]_vars

\* A session joined and left while the host moves its views
NextView ==
    \/ Install
    \/ Uninstall
    \/ \E v \in Values(SnapshotNames) : SetSnapshot(v)
    \/ ReadyToRun(TRUE)
    \/ \E snapshots \in SUBSET SnapshotNames : SnapshotsListed(1, snapshots)
    \/ LeaveSessionCall
    \/ Closebase
    \/ \E now, was \in Eas : ViewLocChanged(now, was)

SpecView == Init /\ [][NextView]_vars

\* A constructed core on a new idb
InitHost == InitWith({EmptyNode})

\* The code points of the strings given to the helpers (a, e-acute, the
\* euro sign) and the bytes of the byte strings (a, 0xE9, the backslash).
CodePoints == {97, 233, 8364}
ByteValues == {97, 233, 92}

SeqsUpTo(S, n) == UNION {[1..k -> S] : k \in 0..n}

\* What a caller may pass to a helper: strings, byte strings (the encodings
\* of the strings among them), None and an int.
CodecInputs ==
    LET texts == SeqsUpTo(CodePoints, MaxText)
    IN  {PyText(cps) : cps \in texts}
        \cup {PyBytes(bs) : bs \in SeqsUpTo(ByteValues, MaxText)}
        \cup {PyBytes(RawEncode(cps)) : cps \in texts}
        \cup {Utf8Encode(cps).value : cps \in texts}
        \cup {PyNone, PyIntValue(5)}

\* A helper is called on a fresh value or on what the last call returned.
CodecArgs ==
    CodecInputs \cup (IF Len(codec.value.v) <= MaxChained THEN {codec.value} ELSE {})

CallCodec(fn, x, r) ==
    /\ codec' = [fn |-> fn, arg |-> x, raised |-> r.raised, value |-> r.value]
    /\ UNCHANGED coreVars
    /\ UNCHANGED <<ida, ran>>

Encode == \E x \in CodecArgs : CallCodec("encode", x, encode(x))

EncodeBytes == \E x \in CodecArgs : CallCodec("encode_bytes", x, encode_bytes(x))

Decode == \E x \in CodecArgs : CallCodec("decode", x, decode(x))

DecodeBytes == \E x \in CodecArgs : CallCodec("decode_bytes", x, decode_bytes(x))

\* The four helpers, called one after another
NextCodec == Encode \/ EncodeBytes \/ Decode \/ DecodeBytes

SpecCodec == InitHost /\ [][NextCodec]_vars

\* The names, comments, byte values and range kinds the events carry, and
\* the serialized types of the type events.
EventNames == {"main", "sub"}
EventCmts == {"note", ""}
EventBytes == {0, 144}
RangeKinds == 0..3
SegmFlags == {0, SEGMOD_KILL}
MemberNames == {None, "S.f", "S.g"}
PyTypes ==
    LET t1 == PyBytes(<<7>>)
        t2 == PyBytes(<<61, 233>>)
        f == PyBytes(<<>>)
    IN  {<<>>, <<t1>>, <<t1, f>>, <<t2, f>>, <<f, t1, f>>, <<t2, f, t1, f>>}

\* The client calls event e on the idb; the type primitive called for the
\* fails-th pair of the event raises.
CallEventFailing(e, fails) ==
    /\ \E r \in {call([Calling(e, ida) EXCEPT !.fails = fails])} :
           /\ ida' = r.ida
           /\ ran' = [ev |-> e, after |-> r.ev, calls |-> r.calls,
                      printed |-> r.printed, raised |-> r.raised,
                      fails |-> fails, n |-> ran.n + 1]
    /\ UNCHANGED coreVars
    /\ UNCHANGED codec

\* The client calls event e on the idb.
CallEvent(e) == CallEventFailing(e, 0)

\* The old and new tuples of the pairs of a local_types_changed event: a
\* new tuple is (name, parsed_list, type_fields, cmt, field_cmts), an old
\* tuple starts with the name, <<>> is an absent tuple, and a tuple of two
\* fields is a malformed new tuple.
OldTupleA == <<"A", "struct", PyText(<<97>>), PyText(<<>>), PyText(<<>>)>>
OldTuples == {<<>>, OldTupleA}
NewTuples ==
    {<<>>, <<"B", "struct", PyText(<<233>>), PyText(<<97>>), PyText(<<>>)>>,
     <<"B", "struct">>}

TypePairs == (OldTuples \X NewTuples) \ {<<OldTupleA, <<"B", "struct">> >>}

\* The lists of pairs an event carries
TypePairLists == SeqsUpTo(TypePairs, MaxPairs)

CallLocalTypesChanged ==
    \E pairs \in TypePairLists :
        \E fails \in 0..Len(pairs) :
            /\ ran.n < MaxCalls
            /\ CallEventFailing(LocalTypesChangedEvent(pairs), fails)

CallRenamed ==
    \E ea \in Eas, name \in EventNames, local_name \in BOOLEAN :
        /\ ran.n < MaxCalls
        /\ CallEvent(RenamedEvent(ea, name, local_name))

CallCmtChanged ==
    \E ea \in Eas, cmt \in EventCmts, rptble \in BOOLEAN :
        /\ ran.n < MaxCalls
        /\ CallEvent(CmtChangedEvent(ea, cmt, rptble))

CallBytePatched ==
    \E ea \in Eas, value \in EventBytes :
        /\ ran.n < MaxCalls
        /\ CallEvent(BytePatchedEvent(ea, value))

CallTiChanged ==
    \E py_type \in PyTypes, name \in MemberNames :
        /\ ran.n < MaxCalls
        /\ CallEvent(TiChangedEvent(4096, py_type, name))

CallRangeCmtChanged ==
    \E kind \in RangeKinds, ea \in Eas, rptble \in BOOLEAN :
        /\ ran.n < MaxCalls
        /\ CallEvent(RangeCmtChangedEvent(kind, ea, ea + 4, "note", rptble))

CallSegmDeleted ==
    \E ea \in Eas :
        \E e \in {SegmDeletedEvent(ea, flags) : flags \in SegmFlags}
                    \cup {SegmDeletedEventNoFlags(ea)} :
            /\ ran.n < MaxCalls
            /\ CallEvent(e)

\* The event object just called is called once more.
CallAgain ==
    /\ ran.n > 0
    /\ ran.n < MaxCalls
    /\ CallEvent(ran.after)

\* Events whose primitive overwrites, replayed on one idb
NextOverwrite ==
    \/ CallRenamed
    \/ CallCmtChanged
    \/ CallBytePatched
    \/ CallTiChanged
    \/ CallAgain

SpecOverwrite == InitHost /\ [][NextOverwrite]_vars

\* The ranges of a sgr_changed event: (start_ea, end_ea, val, tag), for the
\* one segment register Rg.
Rg == 29
SregRanges == {<<ea, ea + 4, vt[1], vt[2]>> : ea \in Eas, vt \in {<<0, 1>>, <<1, 1>>, <<1, 2>>}}

\* The lists of ranges an event carries
SregRangeLists == SeqsUpTo(SregRanges, MaxRanges)

CallSgrChanged ==
    \E sreg_ranges \in SregRangeLists :
        /\ ran.n < MaxCalls
        /\ CallEvent(SgrChanged(Rg, sreg_ranges))

\* sgr_changed events replayed on one idb
NextSgr == CallSgrChanged

SpecSgr == InitHost /\ [][NextSgr]_vars

\* local_types_changed events replayed on one idb
NextTypes == CallLocalTypesChanged

SpecTypes == InitHost /\ [][NextTypes]_vars

\* Events that dispatch on a field or default one, replayed on one idb
NextDispatch ==
    \/ CallRangeCmtChanged
    \/ CallSegmDeleted
    \/ CallTiChanged
    \/ CallAgain

SpecDispatch == InitHost /\ [][NextDispatch]_vars

\* ------------------------------------------------------------------ claims

\* The packets of one type among those the step sent.
Sent(type) == {i \in 1..Len(sent) : sent[i].type = type}

Logged(msg) == \E i \in 1..Len(logged) : logged[i] = msg

\* C1: a JoinSession is sent by a step if and only if the step is the success
\* callback of a query and the reply lists the local snapshot; the deferred
\* that fires is one that join_session registered when it sent the query;
\* when no entry matches, nothing is sent and session_joined, the hook state
\* and the roster stay as they were.
C1_JoinGating ==
    [][ /\ (\E i \in 1..Len(sent') : sent'[i].type = "JoinSession")
              <=> (reply'.fired = "callback" /\ snapshot \in reply'.snapshots)
        /\ reply'.fired = "callback" =>
              /\ \E i \in 1..Len(pending) : pending[i] = reply'.d
              /\ Len(pending') = Len(pending) - 1
        /\ (reply'.fired = "callback" /\ snapshot \notin reply'.snapshots) =>
              /\ sent' = <<>>
              /\ UNCHANGED <<session_joined, hooked, user_hooks, users>>
        /\ Len(pending') > Len(pending) =>
              /\ Len(pending') = Len(pending) + 1
              /\ sent' = <<ListSnapshotsQuery(pending'[Len(pending')].project,
                                              pending'[Len(pending')].binary)>>
      ]_vars

\* A first join: the reply lists the local snapshot, a JoinSession goes out
\* and the hooks are installed.
C1_Witness ==
    /\ reply.fired = "callback"
    /\ snapshot \in reply.snapshots
    /\ Sent("JoinSession") # {}
    /\ Logged("debug: Installing hooks")

\* C2: from the moment the client takes a remote event until it has been
\* called, capture is disabled (_hooked is false and no user-event hook
\* object is hooked), the call sends no packet and moves no tick, and once
\* the event has been called capture is enabled again.
C2_NoFeedbackLoop ==
    [][ /\ pc' = "call" =>
              ~hooked' /\ \A o \in UserHooks : user_hooks'[o] = 0
        /\ pc = "call" =>
              /\ pc' = "called"
              /\ ~hooked' /\ \A o \in UserHooks : user_hooks'[o] = 0
              /\ sent' = <<>>
              /\ tick' = tick
        /\ pc = "called" => pc' = "idle" /\ hooked'
      ]_vars

\* A remote event has been called in a joined session, capture being off.
C2_Witness == pc = "called" /\ session_joined /\ ~hooked

\* C3: the user-event hooks are installed only if a session is joined.
C3_HookedOnlyIfJoined == hooked => session_joined

\* C4: every user-event hook object is hooked exactly once while _hooked is
\* true and not at all while it is false, and a step makes hook()/unhook()
\* calls only when it flips _hooked: one call per hook object.
C4_HookSwitchIdempotent ==
    [][ /\ \A o \in UserHooks : user_hooks'[o] = IF hooked' THEN 1 ELSE 0
        /\ hook_calls' = IF hooked' # hooked THEN Cardinality(UserHooks) ELSE 0
      ]_vars

\* hook_all ran while the hooks were installed: the callback joined and
\* installed nothing.
C4_Witness ==
    /\ reply.fired = "callback"
    /\ Sent("JoinSession") # {}
    /\ hook_calls = 0
    /\ hooked

\* The identifiers locating the dataset on the server.
Triple == <<project, binary, snapshot>>

\* C5: while project, binary and snapshot stay the same, no step (capture,
\* load_netnode, join, reply, leave, dataset close, setters) lowers the tick;
\* the tick goes down only in a step that changes the triple.
C5_TickMonotonic == [][Triple' = Triple => tick' >= tick]_vars

\* The netnode is loaded again after local captures advanced the tick of the
\* session it holds.
C5_Witness ==
    /\ Logged("debug: Loaded netnode")
    /\ tick = MaxTick
    /\ hashstr(node, "tick") = PyStr(MaxTick)
    /\ snapshot = "s1"

\* C6: a reply that arrives after leave_session or dataset close, or that
\* answers an older query than the latest, is ignored: its callback sends
\* nothing and leaves session_joined, the hooks and the roster alone.
C6_StaleReplyIgnored ==
    [][ (reply'.fired = "callback" /\ reply'.d.stale) =>
            /\ sent' = <<>>
            /\ UNCHANGED <<session_joined, hooked, user_hooks, users>>
      ]_vars

\* leave_session itself ran in the step (not as part of closebase).
LeaveCalled ==
    /\ Logged("debug: Leaving session") \/ Logged("debug: Already left session")
    /\ ~Logged("trace: Closebase hook")

\* C7: leave_session on a joined session sends exactly one
\* LeaveSession(host_id, name), empties the roster, disables the hooks and
\* clears session_joined; on a session that is not joined it sends nothing
\* and changes nothing.
C7_LeaveEffects ==
    [][ /\ (LeaveCalled' /\ session_joined) =>
              /\ sent' = <<LeaveSession(HostId, Name)>>
              /\ users' = {}
              /\ ~hooked'
              /\ ~session_joined'
        /\ (LeaveCalled' /\ ~session_joined) =>
              /\ sent' = <<>>
              /\ UNCHANGED <<project, binary, snapshot, tick, users, hooked,
                             user_hooks, session_joined, node>>
      ]_vars

\* C8: the callback of a reply that lists the local snapshot sends exactly
\* one JoinSession, carrying the host id and the project, binary, snapshot
\* and tick held when it runs, and leaves session_joined true, the hooks
\* enabled and the roster empty.
C8_JoinPacket ==
    [][ (reply'.fired = "callback" /\ snapshot \in reply'.snapshots) =>
            /\ sent' = <<JoinSession(HostId, project, binary, snapshot, tick,
                                     Name, Color, ScreenEa)>>
            /\ session_joined'
            /\ hooked' /\ \A o \in UserHooks : user_hooks'[o] = 1
            /\ users' = {}
      ]_vars

\* The callback joins with the tick that load_netnode read, while a later
\* query is still outstanding.
C8_Witness ==
    /\ reply.fired = "callback"
    /\ Sent("JoinSession") # {}
    /\ sent[1].tick = 1
    /\ users = {}
    /\ pending # <<>>

\* C9: the errback of a failed query logs the failure and does nothing
\* else: no packet is sent, the hooks, the roster, the identifiers and the
\* store are untouched, and session_joined keeps its value, so a session
\* that was not joined stays not joined.
C9_ErrbackOnlyLogs ==
    [][ reply'.fired = "errback" =>
            /\ logged' = <<"exception: failure">>
            /\ sent' = <<>>
            /\ hook_calls' = 0
            /\ UNCHANGED <<session_joined, hooked, user_hooks, users, project,
                           binary, snapshot, tick, node>>
            /\ ~session_joined => ~session_joined'
      ]_vars

\* A join attempt was abandoned on failure: the session is not joined.
C9_Witness ==
    /\ reply.fired = "errback"
    /\ ~session_joined
    /\ ~hooked
    /\ AllSet(Cur)

\* C10: leave_session leaves project, binary, snapshot and tick as they
\* were, in memory and in the netnode; the dataset close is what clears the
\* identifiers in memory.
C10_LeaveKeepsIdentifiers ==
    [][ /\ LeaveCalled' => UNCHANGED <<project, binary, snapshot, tick, node>>
        /\ Logged("trace: Closebase hook")' =>
              project' = None /\ binary' = None /\ snapshot' = None
      ]_vars

\* A joined session has been left and still knows where it belongs.
C10_Witness ==
    /\ LeaveCalled
    /\ Sent("LeaveSession") # {}
    /\ AllSet(Cur)
    /\ hashstr(node, "project") = project
    /\ hashstr(node, "snapshot") = snapshot

\* The dataset close ran in the step.
CloseCalled == Logged("trace: Closebase hook")

\* C11: once the closebase handler has run, the netnode holds no project,
\* binary or snapshot, so the next load_netnode finds all three unset.
C11_ClosePersistsUnset ==
    CloseCalled =>
        /\ hashstr(node, "project") = None
        /\ hashstr(node, "binary") = None
        /\ hashstr(node, "snapshot") = None
        /\ ~AllSet(load_netnode(Cur))

\* C12: the dataset close of a joined session sends LeaveSession (with the
\* identifiers not yet cleared, nothing else being sent), and leaves
\* project, binary and snapshot unset in memory, session_joined false, the
\* hooks disabled and the roster empty.
C12_CloseOfJoinedSession ==
    [][ (CloseCalled' /\ session_joined) =>
            /\ sent' = <<LeaveSession(HostId, Name)>>
            /\ project' = None /\ binary' = None /\ snapshot' = None
            /\ ~session_joined'
            /\ ~hooked' /\ \A o \in UserHooks : user_hooks'[o] = 0
            /\ users' = {}
      ]_vars

\* A setter ran in the step, alone.
SetterCalled == logged = <<"debug: Saved netnode">>

\* load_netnode would yield the in-memory project, binary, snapshot and tick.
StoreAgrees ==
    LET l == load_netnode(Cur)
    IN  /\ l.project = project
        /\ l.binary = binary
        /\ l.snapshot = snapshot
        /\ l.tick = tick

\* C13: persistence is write-through: when the netnode agrees with the
\* in-memory fields, it still agrees right after an assignment through a
\* setter, an unset value included.
C13_WriteThrough == [][(StoreAgrees /\ SetterCalled') => StoreAgrees']_vars

\* load_netnode ran in the step.
LoadCalled == Logged("debug: Loaded netnode")

\* load_netnode took the path of the old layout in the step.
Migrated == Logged("warning: Old idb detected")

NewKeys == {"project", "binary", "snapshot", "tick"}

\* C14: loading a netnode in the old layout (a database key, no binary or
\* snapshot key) yields project = the stored group, binary = the stored
\* project, snapshot = the stored database and tick = the stored tick, 0 when
\* there is none, whatever is stored.
C14_LegacyRemap ==
    [][ ( /\ LoadCalled'
          /\ "database" \in DOMAIN node
          /\ "binary" \notin DOMAIN node
          /\ "snapshot" \notin DOMAIN node ) =>
            /\ project' = hashstr(node, "group")
            /\ binary' = hashstr(node, "project")
            /\ snapshot' = hashstr(node, "database")
            /\ PyStr(tick') = IF "tick" \in DOMAIN node THEN node["tick"] ELSE "0"
      ]_vars

\* An old-layout netnode with all four keys has been loaded.
C14_Witness ==
    /\ Migrated
    /\ project = "p1" /\ binary = "b1" /\ snapshot = "s1"
    /\ tick = 5

\* C15: a load of a netnode that has the database key migrates it: the
\* netnode is left with keys of the current layout only; the database key
\* never comes back, so every later load takes the normal path; and the
\* load that follows the migrating load yields the same project, binary,
\* snapshot and tick.
C15_MigratesOnce ==
    [][ /\ (LoadCalled' /\ "database" \in DOMAIN node) =>
              Migrated' /\ DOMAIN node' \subseteq NewKeys
        /\ "database" \notin DOMAIN node =>
              "database" \notin DOMAIN node' /\ ~Migrated'
        /\ (Migrated /\ LoadCalled') =>
              /\ project' = project
              /\ binary' = binary
              /\ snapshot' = snapshot
              /\ tick' = tick
      ]_vars

\* The migrating load has run and the netnode is in the current layout.
C15_Witness ==
    /\ Migrated
    /\ DOMAIN node = NewKeys
    /\ hashstr(node, "project") = "p1"
    /\ hashstr(node, "binary") = "b1"

\* The host-ready handler ran in the step.
ReadyCalled == Logged("trace: Ready to run hook")

\* What netnode n holds for a field: under oldkey when n has a database key,
\* under newkey otherwise.
Stored(n, oldkey, newkey) ==
    IF "database" \in DOMAIN n THEN hashstr(n, oldkey) ELSE hashstr(n, newkey)

\* C16: the host-ready handler leaves project, binary and snapshot as the
\* netnode held them; when all three are set it sends exactly one
\* ListSnapshots.Query carrying the loaded project and binary and nothing
\* else; when one is unset it sends nothing and the session is not joined.
C16_ReadyLoadsThenQueries ==
    [][ ReadyCalled' =>
          LET p == Stored(node, "group", "project")
              b == Stored(node, "project", "binary")
              sn == Stored(node, "database", "snapshot")
          IN  /\ project' = p /\ binary' = b /\ snapshot' = sn
              /\ IF p # None /\ b # None /\ sn # None
                 THEN sent' = <<ListSnapshotsQuery(p, b)>>
                 ELSE sent' = <<>> /\ ~session_joined'
      ]_vars

\* The host-ready handler loaded a full triple and sent its query.
C16_Witness ==
    /\ ReadyCalled
    /\ sent = <<ListSnapshotsQuery("p1", "b1")>>
    /\ snapshot = "s1"

\* C17: at most one ListSnapshots.Query is outstanding: no step sends more
\* than one query, and no more than one deferred of a query awaits its reply.
C17_OneOutstandingQuery ==
    /\ Cardinality(Sent("ListSnapshotsQuery")) <= 1
    /\ Len(pending) <= 1

\* C18: in every state, the session is joined only if project, binary and
\* snapshot are all set.
C18_JoinedOnlyIfAllSet == session_joined => AllSet(Cur)

\* C20: the tick of every JoinSession packet sent is at least 0.
C20_JoinTickUnsigned == \A i \in Sent("JoinSession") : sent[i].tick >= 0

\* C19: a view-location notification sends exactly one
\* UpdateLocation(name, new address, color) when the session is joined and
\* the new address differs from the previous one, and sends nothing
\* otherwise; it leaves the tick, the identifiers and the netnode unchanged.
C19_ViewLocation ==
    [][ \A now, was \in Eas :
          ViewLocChanged(now, was) =>
            /\ sent' = IF session_joined /\ now # was
                       THEN <<UpdateLocation(Name, now, Color)>>
                       ELSE <<>>
            /\ tick' = tick /\ node' = node
            /\ project' = project /\ binary' = binary /\ snapshot' = snapshot
      ]_vars

\* A view of a joined session has moved and its location was sent.
C19_Witness ==
    /\ session_joined
    /\ \E ea \in Eas : sent = <<UpdateLocation(Name, ea, Color)>>

\* The session packets among packets alternate, continuing a wire in state w:
\* a JoinSession only after a LeaveSession or at the start, a LeaveSession
\* only after a JoinSession.
RECURSIVE Alternates(_, _)
Alternates(w, packets) ==
    IF packets = <<>> THEN TRUE
    ELSE IF Head(packets).type = "JoinSession"
         THEN ~w /\ Alternates(TRUE, Tail(packets))
         ELSE IF Head(packets).type = "LeaveSession"
              THEN w /\ Alternates(FALSE, Tail(packets))
              ELSE Alternates(w, Tail(packets))

\* C28: JoinSession and LeaveSession alternate on the wire, starting with
\* JoinSession: no step sends a JoinSession while the last session packet
\* sent is a JoinSession, or a LeaveSession while it is not.
C28_JoinLeaveAlternate == [][Alternates(on_wire, sent')]_vars

\* C29: the project and binary of a JoinSession are those of the
\* ListSnapshots.Query whose reply made the step send it.
C29_JoinCarriesQueried ==
    \A i \in Sent("JoinSession") :
        /\ reply.fired = "callback"
        /\ sent[i].project = reply.d.project
        /\ sent[i].binary = reply.d.binary

\* C26: every helper raises on an argument that is neither a str nor a
\* bytes; on a str or a bytes, what an encoder returns is a bytes and what a
\* decoder returns is a str.
C26_CodecRejectsOtherTypes ==
    codec.fn # "none" =>
        /\ codec.arg.tag \notin {"str", "bytes"} => codec.raised # None
        /\ (codec.arg.tag \in {"str", "bytes"} /\ codec.raised = None) =>
              codec.value.tag =
                  IF codec.fn \in {"encode", "encode_bytes"} THEN "bytes" ELSE "str"

\* The host calls among calls that change the idb.
Mutations(calls) ==
    SelectSeq(calls, LAMBDA c : c.fn \notin {"request_refresh", "refresh_pseudocode_view"})

\* The host calls among calls that refresh a view.
Refreshes(calls) ==
    SelectSeq(calls, LAMBDA c : c.fn \in {"request_refresh", "refresh_pseudocode_view"})

\* C21: calling a range_cmt_changed event sets the function comment when
\* kind is RANGE_KIND_FUNC and the segment comment when kind is
\* RANGE_KIND_SEGMENT, and nothing else; for any other kind it raises, and
\* makes no host call and leaves the idb as it was.
C21_RangeKindDispatch ==
    [][ (ran'.n = ran.n + 1 /\ ran'.ev.event = "range_cmt_changed") =>
          LET e == ran'.ev
          IN  IF e.kind = RANGE_KIND_FUNC
              THEN /\ Mutations(ran'.calls) =
                        <<[fn |-> "set_func_cmt", ea |-> e.start_ea,
                           cmt |-> e.cmt, rptble |-> e.rptble]>>
                   /\ ran'.raised = None
              ELSE IF e.kind = RANGE_KIND_SEGMENT
              THEN /\ Mutations(ran'.calls) =
                        <<[fn |-> "set_segment_cmt", ea |-> e.start_ea,
                           cmt |-> e.cmt, rptble |-> e.rptble]>>
                   /\ ran'.raised = None
              ELSE /\ ran'.raised # None
                   /\ ran'.calls = <<>>
                   /\ ida' = ida
      ]_vars

\* A range_cmt_changed event of a kind that is neither function nor segment
\* has been called and has raised.
C21_Witness ==
    /\ ran.ev.event = "range_cmt_changed"
    /\ ran.ev.kind \notin {RANGE_KIND_FUNC, RANGE_KIND_SEGMENT}
    /\ ran.raised # None

\* C22: calling a segm_deleted event that has no flags field does to the
\* idb what calling it with flags = 0 does: one del_segm with SEGMOD_SILENT
\* alone, and no exception.
C22_MissingFlagsIsZero ==
    [][ ( /\ ran'.n = ran.n + 1
          /\ ran'.ev.event = "segm_deleted_event"
          /\ "flags" \notin DOMAIN ran'.ev ) =>
            LET zero == call(Calling(SegmDeletedEvent(ran'.ev.ea, 0), ida))
            IN  /\ ran'.raised = None
                /\ ran'.calls = <<[fn |-> "del_segm", ea |-> ran'.ev.ea,
                                   flags |-> SEGMOD_SILENT]>>
                /\ ran'.calls = zero.calls
                /\ ida' = zero.ida
                /\ ran'.ev.ea \notin ida'.segs
      ]_vars

\* A segm_deleted event without flags has been called on an idb that had
\* its segment.
C22_Witness ==
    /\ ran.ev.event = "segm_deleted_event"
    /\ "flags" \notin DOMAIN ran.ev
    /\ ran.n = 1
    /\ ran.calls # <<>>

\* C25: calling a renamed, cmt_changed, byte_patched or ti_changed event that
\* was just called, the same object or an equal one, leaves the idb as the
\* first call left it.
C25_OverwriteIdempotent ==
    [][ ( /\ ran'.n = ran.n + 1
          /\ ran'.ev.event \in {"renamed", "cmt_changed", "byte_patched", "ti_changed"}
          /\ ran'.ev.event = ran.ev.event
          /\ ran'.ev = ran.after \/ ran'.ev = ran.ev ) =>
            ida' = ida
      ]_vars

\* A ti_changed event whose first call resolved its address to a struct
\* member has been called a second time.
C25_Witness ==
    /\ ran.n = 2
    /\ ran.ev.event = "ti_changed"
    /\ ran.ev.ea = MemberIds["S.f"]
    /\ Mutations(ran.calls) # <<>>

\* C27: a call leaves the event object as it was: no field is changed and
\* none is added.
C27_EventUnchangedByCall == ran.after = ran.ev

\* A pair with an old tuple and no new one, or with a new tuple of five
\* fields.
WellFormed(pair) ==
    \/ pair[2] = <<>> /\ pair[1] # <<>>
    \/ Len(pair[2]) = 5

\* The primitive the policy prescribes for a pair, as a list of calls:
\* delete for (old, absent), insert with replace for (absent, new), edit in
\* place for (old, new), none for a malformed pair.
Prescribed(pair) ==
    IF ~WellFormed(pair) THEN <<>>
    ELSE IF pair[2] = <<>>
    THEN <<[fn |-> "DeleteType", name |-> pair[1][1]]>>
    ELSE IF pair[1] = <<>>
    THEN <<[fn |-> "InsertType", type |-> LocalType(pair[2]), replace |-> TRUE]>>
    ELSE <<[fn |-> "EditTypeInPlace", name |-> pair[1][1], type |-> LocalType(pair[2])]>>

RECURSIVE PrescribedAll(_)
PrescribedAll(pairs) ==
    IF pairs = <<>> THEN <<>> ELSE Prescribed(Head(pairs)) \o PrescribedAll(Tail(pairs))

\* A local_types_changed event was called in the step.
TypesCalled == ran'.n = ran.n + 1 /\ ran'.ev.event = "local_types_changed"

\* C23: calling a local_types_changed event invokes, in the order of its
\* pairs, exactly the primitive the three-way policy prescribes for each
\* well-formed pair, and no other type primitive.
C23_ThreeWayPolicy ==
    [][TypesCalled => Mutations(ran'.calls) = PrescribedAll(ran'.ev.local_types)]_vars

\* An event with an (old, new) pair followed by an (old, absent) pair has
\* been called: the type was edited in place, then deleted.
C23_Witness ==
    /\ ran.ev.event = "local_types_changed"
    /\ Len(Mutations(ran.calls)) = 2
    /\ Mutations(ran.calls)[1].fn = "EditTypeInPlace"
    /\ Mutations(ran.calls)[2].fn = "DeleteType"

\* The pairs of the event called whose application raised: the malformed
\* ones and the one whose primitive raised.
FailedPairs(run) ==
    {i \in 1..Len(run.ev.local_types) :
        ~WellFormed(run.ev.local_types[i]) \/ i = run.fails}

\* C24: a call of a local_types_changed event raises nothing, whichever
\* pairs fail; every failing pair is reported; every well-formed pair has its
\* primitive invoked, those after a failing pair included; and the call ends
\* with the one refresh request of the local types view.
C24_PairFailureIsolated ==
    [][ TypesCalled =>
          /\ ran'.raised = None
          /\ Len(SelectSeq(ran'.printed,
                           LAMBDA l : l = "failed to apply local type change"))
               = Cardinality(FailedPairs(ran'))
          /\ Len(Mutations(ran'.calls))
               = Cardinality({i \in 1..Len(ran'.ev.local_types) :
                                 WellFormed(ran'.ev.local_types[i])})
          /\ Refreshes(ran'.calls) = <<[fn |-> "request_refresh", iwid |-> "IWID_LOCTYPS"]>>
          /\ ran'.calls[Len(ran'.calls)].fn = "request_refresh"
      ]_vars

\* The first pair of an event failed and the second one was applied: its
\* type is in the idb.
C24_Witness ==
    /\ ran.ev.event = "local_types_changed"
    /\ Len(ran.ev.local_types) = 2
    /\ 1 \in FailedPairs(ran)
    /\ 2 \notin FailedPairs(ran)
    /\ "B" \in DOMAIN ida.ltypes
    /\ ran.n = 1

\* The ranges of a list or of the idb as a map from start address to
\* (value, tag).
ValueTags(by_start) == [ea \in DOMAIN by_start |-> <<by_start[ea][3], by_start[ea][4]>>]

\* A sgr_changed event was called in the step.
SgrCalled == ran'.n = ran.n + 1 /\ ran'.ev.event = "sgr_changed"

\* C30: after a sgr_changed event is called, the ranges of the idb, as a map
\* from start address to (value, tag), are those of the event; the call
\* creates the starts only the event has, deletes the starts only the idb
\* has, rewrites a common start only when value or tag differ, one host call
\* per start at most and in ascending order of address; calling the same
\* event again makes no mutating call.
C30_SgrRangesConverge ==
    [][ SgrCalled =>
          \E new \in {ValueTags(RangesByStart(ran'.ev.sreg_ranges))},
             old \in {ValueTags(ida.sregs)},
             m \in {Mutations(ran'.calls)} :
          LET On(ea) == SelectSeq(m, LAMBDA c : c.ea = ea)
          IN  /\ ValueTags(ida'.sregs) = new
              /\ \A ea \in DOMAIN new \ DOMAIN old :
                    On(ea) = <<[fn |-> "split_sreg_range", ea |-> ea,
                                rg |-> ran'.ev.rg, v |-> new[ea][1],
                                tag |-> new[ea][2], silent |-> TRUE]>>
              /\ \A ea \in DOMAIN old \ DOMAIN new :
                    On(ea) = <<[fn |-> "del_sreg_range", ea |-> ea, rg |-> ran'.ev.rg]>>
              /\ \A ea \in DOMAIN old \cap DOMAIN new :
                    On(ea) = IF new[ea] # old[ea]
                             THEN <<[fn |-> "split_sreg_range", ea |-> ea,
                                     rg |-> ran'.ev.rg, v |-> new[ea][1],
                                     tag |-> new[ea][2], silent |-> TRUE]>>
                             ELSE <<>>
              /\ \A i, j \in 1..Len(m) : i < j => m[i].ea < m[j].ea
              /\ (ran.ev.event = "sgr_changed" /\ ran'.ev = ran.ev) => m = <<>>
      ]_vars

\* A sgr_changed event has been called on an idb that had a range the event
\* lacks and lacked a range the event has: one range was deleted, one created.
C30_Witness ==
    /\ ran.ev.event = "sgr_changed"
    /\ Len(Mutations(ran.calls)) = 2
    /\ Mutations(ran.calls)[1].fn = "del_sreg_range"
    /\ Mutations(ran.calls)[2].fn = "split_sreg_range"

\* A ti_changed event was called in the step.
TiCalled == ran'.n = ran.n + 1 /\ ran'.ev.event = "ti_changed"

\* C31: a call of a ti_changed event raises nothing; with a type list that,
\* once the first element of a 3-element list is dropped, has at least 2
\* elements, it applies the type once, from the first two remaining
\* elements, and then refreshes; with 0 or 1 elements it makes no host call
\* and leaves the idb as it was.
C31_TiAppliedFromTwoElements ==
    [][ TiCalled =>
          \E enc \in {[i \in 1..Len(ran'.ev.py_type) |->
                          encode_bytes(ran'.ev.py_type[i]).value]} :
          \E rest \in {IF Len(enc) = 3 THEN Tail(enc) ELSE enc} :
              /\ ran'.raised = None
              /\ IF Len(rest) >= 2
                 THEN /\ Len(Mutations(ran'.calls)) = 1
                      /\ Mutations(ran'.calls)[1].fn = "apply_type"
                      /\ Mutations(ran'.calls)[1].type = GetTypeString(rest[1])
                      /\ Mutations(ran'.calls)[1].fields = rest[2]
                      /\ Len(Refreshes(ran'.calls)) = 2
                 ELSE /\ ran'.calls = <<>>
                      /\ ida' = ida
      ]_vars

\* A ti_changed event with a 3-element type list has been called: the type
\* was applied from its second and third elements.
C31_Witness ==
    /\ ran.ev.event = "ti_changed"
    /\ Len(ran.ev.py_type) = 3
    /\ Len(Mutations(ran.calls)) = 1
    /\ Mutations(ran.calls)[1].type = GetTypeString(encode_bytes(ran.ev.py_type[2]).value)

\* The op values the sender of op_type_changed events knows, with two it
\* does not, and the extra dictionary that goes with each: the enum name and
\* serial for enum, the struct path and delta for struct, none otherwise.
KnownOps == {"hex", "bin", "dec", "chr", "oct", "offset", "enum", "struct", "stkvar"}
OpValues == KnownOps \cup {"invert_sign", ""}
OpExtras(op) ==
    CASE op = "enum" -> {[ename |-> "E", serial |-> 0], [ename |-> "F", serial |-> 1]}
      [] op = "struct" -> {[spath |-> <<>>, delta |-> 0], [spath |-> <<"S">>, delta |-> 4],
                           [spath |-> <<"S", "T">>, delta |-> 0]}
      [] OTHER -> {<<>>}

CallOpTypeChanged ==
    \E n \in 0..1, op \in OpValues :
        \E extra \in OpExtras(op) :
            /\ ran.n < MaxCalls
            /\ CallEvent(OpTypeChangedEvent(4096, n, op, extra))

\* op_type_changed events replayed on one idb
NextOpType == CallOpTypeChanged

SpecOpType == InitHost /\ [][NextOpType]_vars

\* The host primitive of each known op.
OpPrimitive ==
    [op \in KnownOps |->
        CASE op = "offset" -> "op_plain_offset"
          [] op = "struct" -> "op_stroff"
          [] OTHER -> "op_" \o op]

\* C32: a call of an op_type_changed event raises and prints nothing; when
\* op is one of the nine known values it makes exactly one host call, the
\* primitive of that op on the operand of the event; for any other op it
\* makes no host call and leaves the idb as it was.
C32_OpTypeNineOps ==
    [][ (ran'.n = ran.n + 1 /\ ran'.ev.event = "op_type_changed") =>
          /\ ran'.raised = None
          /\ ran'.printed = <<>>
          /\ IF ran'.ev.op \in KnownOps
             THEN /\ Len(ran'.calls) = 1
                  /\ ran'.calls[1].fn = OpPrimitive[ran'.ev.op]
                  /\ ran'.calls[1].ea = ran'.ev.ea
                  /\ ran'.calls[1].n = ran'.ev.n
                  /\ DOMAIN ida'.ops = DOMAIN ida.ops \cup {<<ran'.ev.ea, ran'.ev.n>>}
             ELSE /\ ran'.calls = <<>>
                  /\ ida' = ida
      ]_vars

\* An event with an op that is not known has been called on an idb whose
\* operand had a representation set by an earlier event.
C32_Witness ==
    /\ ran.ev.event = "op_type_changed"
    /\ ran.ev.op = "invert_sign"
    /\ ran.calls = <<>>
    /\ <<ran.ev.ea, ran.ev.n>> \in DOMAIN ida.ops
    /\ ida.ops[<<ran.ev.ea, ran.ev.n>>].kind = "stroff"

\* The type records the host may hold at an ordinal.
TypeRecords == {"T1", "T2"}

\* The user edits the local types in the host, or opens an idb with other
\* local types: get_ordinal_count and the type at each ordinal change.
EditLocalTypes(types) ==
    /\ Idle
    /\ types # host_types
    /\ host_types' = types
    /\ Becomes(Cur)
    /\ reply' = NoReply
    /\ UNCHANGED <<core_hooks, installed, events, pc>>

\* Sessions joined and left while the local types of the host change
NextCatalogue ==
    \/ Install
    \/ ReadyToRun(TRUE)
    \/ \E snapshots \in SUBSET SnapshotNames : SnapshotsListed(1, snapshots)
    \/ LeaveSessionCall
    \/ \E types \in SeqsUpTo(TypeRecords, MaxTypes) : EditLocalTypes(types)

SpecCatalogue == Init /\ [][NextCatalogue]_vars

\* C33: after a step in which hook_all ran update_local_types_map, the keys
\* of the local type map are the ordinals 1..count of the host and each
\* entry is the type at its ordinal.
C33_CatalogueMatchesHost ==
    [][ (\E i \in 1..Len(logged') : logged'[i] = "debug: Installing hooks") =>
          /\ DOMAIN local_type_map' = 1..Len(host_types')
          /\ \A i \in 1..Len(host_types') : local_type_map'[i] = host_types'[i]
      ]_vars

\* C34: after _uninstall runs on an installed core, no core hook object
\* that _install hooked is hooked and no user-event hook object is hooked,
\* whatever the session state was.
C34_UninstallUnhooksAll ==
    [][ (installed = "installed" /\ installed' = "uninstalled") =>
          /\ \A o \in CoreHooks : ~core_hooks'[o]
          /\ \A o \in UserHooks : user_hooks'[o] = 0
      ]_vars

====
